---- MODULE Spec2Model ----
(***************************************************************************)
(* Model of the infinite carousel slider of the portfolio page.            *)
(*                                                                         *)
(* The script clones the first and the last slide, puts the clones at the  *)
(* two ends of the track, and advances a cursor (currentIndex) every       *)
(* 3000 ms; a one-shot timer of 500 ms rewinds the cursor to 1.            *)
(* slideItems is slides.children, a LIVE collection: its length is read    *)
(* again at every use, after the clones were inserted.                     *)
(*                                                                         *)
(* The same module models the banner rotator of that script and, from      *)
(* js/javascripts.js, the mobile menu (Navigation), the header scroll      *)
(* effect (ScrollEffects) and Utils.debounce as the two are wired to it.   *)
(***************************************************************************)
EXTENDS Integers, Sequences, FiniteSets

\* ---------------------------------------------------------------- bounds
MaxN == 3          \* largest number of authored slides explored
MaxTicks == 9      \* cap on the number of slideNext calls explored
MaxCursor == 14    \* cap on currentIndex where the number of ticks is not capped
MaxB == 4          \* largest number of banner elements explored
MaxBannerTicks == 12   \* cap on the number of nextBanner calls explored
Widths == {200, 300}   \* rendered widths of a slide explored
ViewportWidths == {400, 700, 1024}   \* viewport widths explored
TouchYs == {0, 50, 120}              \* screenY of a touch explored
Keys == {"Escape", "a"}              \* event.key explored
ScrollYs == {-20, 0, 50, 51, 120, 300}    \* window.scrollY explored
MaxBurst == 3                        \* most calls of a debounced function in one burst
DebounceWaits == {10, 20, 250}       \* wait of a debounced function explored
DebounceArgs == {"x", "y"}           \* arguments of a call explored
MaxInFlight == 2                     \* most submissions awaited at one time
\* input.value explored, as sequences of characters
NameValues == {<<>>, <<" ">>, <<"a">>}
EmailValues == {<<>>, <<"a", "@", "a">>, <<"a", "@", "a", ".", "a">>,
                <<" ", "a", "@", "a", ".", "a", " ">>,
                <<"a", "@", " ", ".", "a">>}
MessageValues == {<<>>, <<"a">>}

\* ------------------------------------------------------ program constants
TickInterval == 3000   \* setInterval(slideNext, 3000)
RewindDelay_Slow == TickInterval + 500

RewindDelay == 500     \* setTimeout(..., 500)
Animated == "transform 0.5s ease-in-out"
None == "none"
Unset == ""            \* inline style never written
BannerInterval == 3000 \* setInterval(nextBanner, 3000)
Block == "block"
MobileBreakpoint == 480    \* CONFIG.breakpoints.mobile
TabletBreakpoint == 768    \* CONFIG.breakpoints.tablet
ResizeWait == 250          \* Utils.debounce(handleResize, 250)
SwipeThreshold == 50       \* const swipeThreshold = 50
ScrollThreshold == 50      \* CONFIG.scroll.threshold
ScrollDebounceDelay == 10  \* CONFIG.scroll.debounceDelay
Immediate == TRUE          \* debounce(func, wait = 20, immediate = true)
NoTimer == -1              \* let timeout: undefined, or null after later()
Hidden == "hidden"
LoadingTimeout == 1500     \* CONFIG.form.loadingTimeout
SuccessTimeout == 5000     \* setTimeout(..., 5000) of a success message
Fields == {"text", "email", "textarea"}   \* input.name || input.type

VARIABLES
  slideItems,    \* slides.children (live): sequence of elements, DOM index i at i+1
  slideWidth,    \* const slideWidth, measured at build (0 before)
  built,         \* the top-level carousel statements have run
  currentIndex,  \* let currentIndex
  transition,    \* slides.style.transition
  transform,     \* slides.style.transform, the pixel offset of translateX
  styleLog,      \* the style before the last callback and after each of its writes
  timeouts,      \* pending one-shot timers: ms left until each fires
  interval,      \* ms left until the recurring timer fires (-1: not registered)
  ticks,         \* number of slideNext calls so far
  \* --- banner rotator
  bannerList,    \* style.display of each element of class banner-image
  indexBanner,   \* let indexBanner
  bannerStarted, \* the top-level banner statements have run
  bannerTimer,   \* ms left until setInterval(nextBanner) fires (-1: not registered)
  bannerTicks,   \* number of nextBanner calls so far
  \* --- mobile menu
  isMenuOpen,    \* Navigation.isMenuOpen
  toggleActive,  \* mobileToggle.classList has "active"
  navMenuOpen,   \* nav.classList has "mobile-menu-open"
  bodyOverflow,  \* body.style.overflow
  ariaExpanded,  \* mobileToggle aria-expanded
  ariaHidden,    \* nav aria-hidden
  viewportWidth, \* Utils.getViewportWidth()
  touchBound,    \* setupTouchHandlers registered its listeners
  touchStartY,   \* let touchStartY
  touchEndY,     \* let touchEndY
  resizeTimer,   \* timeout of the debounced handleResize: ms left, or NoTimer
  resizeOnly,    \* only resize events were dispatched since that timer was first set
  lastEvent,     \* the event dispatched last
  menuLog,       \* isMenuOpen before that event and after each of its listeners
  \* --- header scroll effect
  scrollY,        \* window.scrollY
  headerScrolled, \* header.classList has "scrolled"
  lastScrollY,    \* ScrollEffects.lastScrollY
  scrollTimer,    \* timeout of the debounced updateHeader: ms left, or NoTimer
  scrollEvent,    \* what ran last: "init", "scroll" or "scrollLater"
  \* --- one function returned by Utils.debounce(func, wait, immediate)
  dbWait,         \* wait
  dbImmediate,    \* immediate
  dbTimeout,      \* let timeout: a timer id, or NoTimer for undefined and null
  dbTimers,       \* the timers of this function that are pending: id, ms left, args
  dbSince,        \* ms since the last call, counted up to wait
  burstCalls,     \* arguments of the calls of the current burst, in order
  burstInvoked,   \* the invocations of func caused by the current burst
  \* --- contact form
  fieldValue,     \* input.value of the text input, the email input, the textarea
  fieldState,     \* style.borderColor and aria-invalid of each of them
  requiredAttr,   \* the fields carry the required attribute
  hasReset,       \* contactForm.reset exists
  formMessage,    \* the .form-message elements, first in the document first
  submitBtn,      \* opacity, pointerEvents, textContent, aria-busy of the button
  pending         \* ms left of the timer of each submitForm promise awaited

carouselVars == <<slideItems, slideWidth, built, currentIndex, transition,
                  transform, styleLog, timeouts, interval, ticks>>

bannerVars == <<bannerList, indexBanner, bannerStarted, bannerTimer, bannerTicks>>

navVars == <<isMenuOpen, toggleActive, navMenuOpen, bodyOverflow, ariaExpanded,
            ariaHidden, viewportWidth, touchBound, touchStartY, touchEndY,
            resizeTimer, resizeOnly, lastEvent, menuLog>>

scrollVars == <<scrollY, headerScrolled, lastScrollY, scrollTimer, scrollEvent>>

debounceVars == <<dbWait, dbImmediate, dbTimeout, dbTimers, dbSince,
                  burstCalls, burstInvoked>>

formVars == <<fieldValue, fieldState, requiredAttr, hasReset, formMessage,
              submitBtn, pending>>

\* the parts added to the page model last
restVars == <<debounceVars, formVars>>

\* everything the carousel does not touch
notCarousel == <<bannerVars, navVars, scrollVars, restVars>>

vars == <<carouselVars, bannerVars, navVars, scrollVars, restVars>>

\* ------------------------------------------------------------ DOM helpers
\* An element: which authored slide it shows, whether it is a clone, its width.
Slide(i, w) == [slide |-> i, clone |-> FALSE, width |-> w]

\* children[i] for a 0-based DOM index
Item(items, i) == items[i + 1]

\* number of authored (real) slides on the track
N == Cardinality({i \in DOMAIN slideItems : ~slideItems[i].clone})

CloneNode(e) == [e EXCEPT !.clone = TRUE]

AppendChild(items, e) == Append(items, e)

\* parent.insertBefore(e, children[ref])
InsertBefore(items, e, ref) ==
  SubSeq(items, 1, ref) \o <<e>> \o SubSeq(items, ref + 1, Len(items))

\* the track after the two clones are inserted (lines 61-66)
BuildTrack_LastCloneAppended(items) ==
  LET firstClone == CloneNode(Item(items, 0))
      lastClone == CloneNode(Item(items, Len(items) - 1))
  IN AppendChild(AppendChild(items, firstClone), lastClone)

BuildTrack(items) ==
  LET firstClone == CloneNode(Item(items, 0))
      lastClone == CloneNode(Item(items, Len(items) - 1))
      appended == AppendChild(items, firstClone)
  IN InsertBefore(appended, lastClone, 0)

\* -slideWidth * currentIndex
TranslateX_OffByOne(w, idx) == -w * (idx - 1)

TranslateX(w, idx) == -w * idx

\* currentIndex === slideItems.length, read from the live collection
WrapReached_Early(idx, items) == idx = Len(items) - 2

WrapReached_AtClone(idx, items) == idx = Len(items) - 1

WrapReached_AtLeast(idx, items) == idx >= Len(items)

WrapReached_Late(idx, items) == idx = Len(items) + 1

WrapReached(idx, items) == idx = Len(items)

\* the style after each write of slideNext: transition first, then transform
SlideNextStyle_MoveFirst(style, w, idx) ==
  LET s1 == [style EXCEPT !.transform = TranslateX(w, idx)]
      s2 == [s1 EXCEPT !.transition = Animated]
  IN <<s1, s2>>

SlideNextStyle(style, w, idx) ==
  LET s1 == [style EXCEPT !.transition = Animated]
      s2 == [s1 EXCEPT !.transform = TranslateX(w, idx)]
  IN <<s1, s2>>

\* the style after each write of the rewind callback
RewindStyle(style, w, idx) ==
  LET s1 == [style EXCEPT !.transition = None]
      s2 == [s1 EXCEPT !.transform = TranslateX(w, idx)]
  IN <<s1, s2>>

Style == [transition |-> transition, transform |-> transform]

Remove(seq, i) == SubSeq(seq, 1, i - 1) \o SubSeq(seq, i + 1, Len(seq))

SeqMin(seq) == CHOOSE m \in {seq[i] : i \in DOMAIN seq} :
                 \A j \in DOMAIN seq : m <= seq[j]

\* ------------------------------------------------------------------ Init
\* The authored page: N slides of one width, nothing run yet.
InitCarousel ==
  /\ \E n \in 1..MaxN, w \in Widths :
       slideItems = [i \in 1..n |-> Slide(i - 1, w)]
  /\ slideWidth = 0
  /\ built = FALSE
  /\ currentIndex = 0
  /\ transition = Unset
  /\ transform = 0
  /\ styleLog = <<>>
  /\ timeouts = <<>>
  /\ interval = -1
  /\ ticks = 0

\* a page with one slide, when the carousel is not the part under study
IdleCarousel ==
  /\ slideItems = <<Slide(0, 200)>>
  /\ slideWidth = 0
  /\ built = FALSE
  /\ currentIndex = 0
  /\ transition = Unset
  /\ transform = 0
  /\ styleLog = <<>>
  /\ timeouts = <<>>
  /\ interval = -1
  /\ ticks = 0

\* B banner elements, each shown or not by the authored markup; let indexBanner = 0
InitBanner ==
  /\ \E b \in 1..MaxB : bannerList \in [1..b -> {Unset, Block}]
  /\ indexBanner = 0
  /\ bannerStarted = FALSE
  /\ bannerTimer = -1
  /\ bannerTicks = 0

IdleBanner ==
  /\ bannerList = <<Unset>>
  /\ indexBanner = 0
  /\ bannerStarted = FALSE
  /\ bannerTimer = -1
  /\ bannerTicks = 0

\* the page after App.init() at viewport width w: menu closed, no menu class
NavAt(w) ==
  /\ isMenuOpen = FALSE
  /\ toggleActive = FALSE
  /\ navMenuOpen = FALSE
  /\ bodyOverflow = Unset
  /\ ariaExpanded = Unset
  /\ ariaHidden = Unset
  /\ viewportWidth = w
  /\ touchBound = (w <= MobileBreakpoint)
  /\ touchStartY = 0
  /\ touchEndY = 0
  /\ resizeTimer = NoTimer
  /\ resizeOnly = FALSE
  /\ lastEvent = "init"
  /\ menuLog = <<FALSE>>

InitNav == \E w \in ViewportWidths : NavAt(w)

IdleNav == NavAt(1024)

\* the page loaded at scroll position y; no scroll event was handled yet
ScrollAt(y) ==
  /\ scrollY = y
  /\ headerScrolled = FALSE
  /\ lastScrollY = 0
  /\ scrollTimer = NoTimer
  /\ scrollEvent = "init"

InitScroll == \E y \in ScrollYs : ScrollAt(y)

IdleScroll == ScrollAt(0)

\* a function just returned by Utils.debounce(func, w, imm): never called
DebouncedAs(w, imm) ==
  /\ dbWait = w
  /\ dbImmediate = imm
  /\ dbTimeout = NoTimer
  /\ dbTimers = {}
  /\ dbSince = w
  /\ burstCalls = <<>>
  /\ burstInvoked = <<>>

InitDebounce == \E w \in DebounceWaits, imm \in BOOLEAN : DebouncedAs(w, imm)

IdleDebounce == DebouncedAs(20, TRUE)

\* a field without error mark, and one marked by setFieldError
Clean == [borderColor |-> Unset, ariaInvalid |-> Unset]
Errored == [borderColor |-> "#ef4444", ariaInvalid |-> "true"]

\* the button as authored, and as setLoadingState(isLoading) leaves it
AuthoredBtn == [opacity |-> Unset, pointerEvents |-> Unset,
                textContent |-> "Get In Touch", ariaBusy |-> Unset]

\* the form after FormHandler.init(), holding the values v
FormWith(v, req, reset) ==
  /\ fieldValue = v
  /\ fieldState = [f \in Fields |-> Clean]
  /\ requiredAttr = req
  /\ hasReset = reset
  /\ formMessage = <<>>
  /\ submitBtn = AuthoredBtn
  /\ pending = <<>>

EmptyForm == [f \in Fields |-> <<>>]

InitForm ==
  \E n \in NameValues, e \in EmailValues, m \in MessageValues,
     req \in BOOLEAN, reset \in BOOLEAN :
    FormWith([text |-> n, email |-> e, textarea |-> m], req, reset)

IdleForm == FormWith(EmptyForm, TRUE, TRUE)

IdleRest == IdleDebounce /\ IdleForm

Init == InitCarousel /\ IdleBanner /\ IdleNav /\ IdleScroll /\ IdleRest

\* --------------------------------------------------------------- actions
\* top-level statements, lines 56-70 and 87
Build ==
  /\ ~built
  /\ built' = TRUE
  /\ slideWidth' = Item(slideItems, 0).width
  /\ slideItems' = BuildTrack(slideItems)
  /\ currentIndex' = 1
  /\ transform' = TranslateX(slideWidth', currentIndex')
  /\ transition' = transition
  /\ styleLog' = <<Style, [Style EXCEPT !.transform = transform']>>
  /\ interval' = TickInterval
  /\ UNCHANGED <<timeouts, ticks>>
  /\ UNCHANGED notCarousel

\* function slideNext(), lines 73-85, on the program's own state
SlideNextBody ==
  LET idx == currentIndex + 1
      log == SlideNextStyle(Style, slideWidth, idx)
  IN /\ currentIndex' = idx
     /\ transition' = log[Len(log)].transition
     /\ transform' = log[Len(log)].transform
     /\ styleLog' = <<Style>> \o log
     /\ timeouts' = IF WrapReached(idx, slideItems)
                      THEN Append(timeouts, RewindDelay)
                      ELSE timeouts
     /\ UNCHANGED <<slideItems, slideWidth, built>>
     /\ UNCHANGED notCarousel

\* a call of slideNext, counted
SlideNext ==
  /\ SlideNextBody
  /\ ticks' = ticks + 1

\* the arrow function given to setTimeout, lines 79-83; i is the timer that fires
Rewind_KeepsCursor(i) ==
  LET log == RewindStyle(Style, slideWidth, 1)
  IN /\ transition' = log[Len(log)].transition
     /\ transform' = log[Len(log)].transform
     /\ styleLog' = <<Style>> \o log
     /\ timeouts' = Remove(timeouts, i)
     /\ UNCHANGED <<currentIndex, slideItems, slideWidth, built, ticks>>
     /\ UNCHANGED notCarousel

Rewind(i) ==
  LET idx == 1
      log == RewindStyle(Style, slideWidth, idx)
  IN /\ currentIndex' = idx
     /\ transition' = log[Len(log)].transition
     /\ transform' = log[Len(log)].transform
     /\ styleLog' = <<Style>> \o log
     /\ timeouts' = Remove(timeouts, i)
     /\ UNCHANGED <<slideItems, slideWidth, built, ticks>>
     /\ UNCHANGED notCarousel

\* --- the timers at their configured delays
\* time passes until the next timer is due
Elapse ==
  /\ built
  /\ LET d == SeqMin(<<interval>> \o timeouts)
     IN /\ d > 0
        /\ interval' = interval - d
        /\ timeouts' = [i \in DOMAIN timeouts |-> timeouts[i] - d]
  /\ UNCHANGED <<slideItems, slideWidth, built, currentIndex, transition,
                 transform, styleLog, ticks>>
  /\ UNCHANGED notCarousel

\* setInterval(slideNext, 3000) fires
IntervalFire ==
  /\ built
  /\ interval = 0
  /\ ticks < MaxTicks
  /\ SlideNext
  /\ interval' = TickInterval

\* a due setTimeout fires
TimeoutFire ==
  \E i \in DOMAIN timeouts :
    /\ timeouts[i] = 0
    /\ Rewind(i)
    /\ UNCHANGED interval

Next == Build \/ Elapse \/ IntervalFire \/ TimeoutFire

Spec == Init /\ [][Next]_vars

\* --- the same callbacks with no assumption on when a timer fires
TickAnytime ==
  /\ built
  /\ ticks < MaxTicks
  /\ SlideNext
  /\ UNCHANGED interval

RewindAnytime ==
  \E i \in DOMAIN timeouts :
    /\ Rewind(i)
    /\ UNCHANGED interval

NextRace == Build \/ TickAnytime \/ RewindAnytime

SpecRace == Init /\ [][NextRace]_vars

\* --- both timers keep firing: the number of ticks is not capped (and not
\* counted), the cursor is
TickLive ==
  /\ built
  /\ currentIndex < MaxCursor
  /\ SlideNextBody
  /\ UNCHANGED <<interval, ticks>>

NextLive == Build \/ TickLive \/ RewindAnytime

\* setInterval keeps calling slideNext and every setTimeout fires
SpecLive ==
  /\ Init
  /\ [][NextLive]_vars
  /\ WF_vars(Build)
  /\ WF_vars(TickLive)
  /\ WF_vars(RewindAnytime)

\* ---------------------------------------------------------- banner rotator
\* everything the banner rotator does not touch
notBanner == <<carouselVars, navVars, scrollVars, restVars>>

B == Len(bannerList)

\* if (indexBanner >= bannerList.length) indexBanner = 0, lines 40-43
BannerIndex_Strict(idx, len) == IF idx > len THEN 0 ELSE idx

BannerIndex(idx, len) == IF idx >= len THEN 0 ELSE idx

\* the loop that hides every banner, then bannerList[idx] shown, lines 46-50
ShowOnly_NoHide(list, idx) ==
  [i \in DOMAIN list |-> IF i = idx + 1 THEN Block ELSE list[i]]

ShowOnly(list, idx) ==
  [i \in DOMAIN list |-> IF i = idx + 1 THEN Block ELSE None]

\* function changeBackground(), lines 37-51, called with indexBanner = idx
ChangeBackground(idx) ==
  /\ indexBanner' = BannerIndex(idx, Len(bannerList))
  /\ bannerList' = ShowOnly(bannerList, indexBanner')

\* top-level statements, lines 27-29 and 53
BannerStart ==
  /\ ~bannerStarted
  /\ bannerStarted' = TRUE
  /\ ChangeBackground(indexBanner)
  /\ bannerTimer' = BannerInterval
  /\ UNCHANGED bannerTicks
  /\ UNCHANGED notBanner

\* time passes until setInterval(nextBanner, 3000) is due
BannerElapse ==
  /\ bannerStarted
  /\ bannerTimer > 0
  /\ bannerTimer' = 0
  /\ UNCHANGED <<bannerList, indexBanner, bannerStarted, bannerTicks>>
  /\ UNCHANGED notBanner

\* function nextBanner(), lines 31-34, called by the recurring timer
NextBanner ==
  /\ bannerStarted
  /\ bannerTimer = 0
  /\ bannerTicks < MaxBannerTicks
  /\ ChangeBackground(indexBanner + 1)
  /\ bannerTimer' = BannerInterval
  /\ bannerTicks' = bannerTicks + 1
  /\ UNCHANGED bannerStarted
  /\ UNCHANGED notBanner

NextBannerSpec == BannerStart \/ BannerElapse \/ NextBanner

BannerPage == IdleCarousel /\ InitBanner /\ IdleNav /\ IdleScroll /\ IdleRest

SpecBanner == BannerPage /\ [][NextBannerSpec]_vars

\* ------------------------------------------------------------ Utils.debounce
\* const callNow = immediate && !timeout
CallNow(immediate, timer) == immediate /\ timer = NoTimer

\* later() calls func only if !immediate
LaterCalls(immediate) == ~immediate

\* -------------------------------------------------------------- mobile menu
notNav == <<carouselVars, bannerVars, scrollVars, restVars>>

Menu == [isMenuOpen |-> isMenuOpen, toggleActive |-> toggleActive,
         navMenuOpen |-> navMenuOpen, bodyOverflow |-> bodyOverflow,
         ariaExpanded |-> ariaExpanded, ariaHidden |-> ariaHidden]

SetMenu(m) ==
  /\ isMenuOpen' = m.isMenuOpen
  /\ toggleActive' = m.toggleActive
  /\ navMenuOpen' = m.navMenuOpen
  /\ bodyOverflow' = m.bodyOverflow
  /\ ariaExpanded' = m.ariaExpanded
  /\ ariaHidden' = m.ariaHidden

\* Navigation.openMobileMenu, lines 264-275
OpenMobileMenu(m) ==
  IF m.isMenuOpen THEN m
  ELSE [isMenuOpen |-> TRUE, toggleActive |-> TRUE, navMenuOpen |-> TRUE,
        bodyOverflow |-> Hidden, ariaExpanded |-> "true", ariaHidden |-> "false"]

\* Navigation.closeMobileMenu, lines 280-291
CloseMobileMenu_KeepsOverflow(m) ==
  IF ~m.isMenuOpen THEN m
  ELSE [isMenuOpen |-> FALSE, toggleActive |-> FALSE, navMenuOpen |-> FALSE,
        bodyOverflow |-> m.bodyOverflow, ariaExpanded |-> "false",
        ariaHidden |-> "true"]

CloseMobileMenu(m) ==
  IF ~m.isMenuOpen THEN m
  ELSE [isMenuOpen |-> FALSE, toggleActive |-> FALSE, navMenuOpen |-> FALSE,
        bodyOverflow |-> Unset, ariaExpanded |-> "false", ariaHidden |-> "true"]

\* Navigation.toggleMobileMenu, lines 257-259
ToggleMobileMenu(m) ==
  IF m.isMenuOpen THEN CloseMobileMenu(m) ELSE OpenMobileMenu(m)

\* Navigation.handleOutsideClick, lines 297-306; the two flags are
\* nav.contains(event.target) and mobileToggle.contains(event.target)
HandleOutsideClick_IgnoresToggle(m, isClickInsideNav, isClickOnToggle) ==
  IF ~m.isMenuOpen THEN m
  ELSE IF ~isClickInsideNav THEN CloseMobileMenu(m) ELSE m

HandleOutsideClick(m, isClickInsideNav, isClickOnToggle) ==
  IF ~m.isMenuOpen THEN m
  ELSE IF ~isClickInsideNav /\ ~isClickOnToggle THEN CloseMobileMenu(m) ELSE m

\* Navigation.handleEscapeKey, lines 312-316
HandleEscapeKey(m, key) ==
  IF key = "Escape" /\ m.isMenuOpen THEN CloseMobileMenu(m) ELSE m

\* Navigation.handleResize, lines 321-329
HandleResize(m, width) ==
  IF width > TabletBreakpoint /\ m.isMenuOpen THEN CloseMobileMenu(m) ELSE m

Abs(x) == IF x < 0 THEN -x ELSE x

\* ScrollEffects.handleSwipe, lines 521-531
HandleSwipe(m, startY, endY) ==
  LET diff == startY - endY
  IN IF Abs(diff) > SwipeThreshold /\ diff > 0
       THEN (IF m.isMenuOpen THEN CloseMobileMenu(m) ELSE m)
       ELSE m

\* an event other than resize was dispatched
Dispatched(name, log) ==
  /\ lastEvent' = name
  /\ menuLog' = log
  /\ resizeOnly' = FALSE
  /\ UNCHANGED <<viewportWidth, touchBound, resizeTimer>>
  /\ UNCHANGED notNav

\* click on the toggle: its listener (line 231), then the document's (line 242)
ClickToggle ==
  \E insideNav \in BOOLEAN :
    LET m1 == ToggleMobileMenu(Menu)
        m2 == HandleOutsideClick(m1, insideNav, TRUE)
    IN /\ SetMenu(m2)
       /\ Dispatched("toggle", <<isMenuOpen, m1.isMenuOpen, m2.isMenuOpen>>)
       /\ UNCHANGED <<touchStartY, touchEndY>>

\* click on a nav link: closeMobileMenu (line 238), handleSmoothScroll
\* (line 336, no effect on the menu), then the document's listener
ClickNavLink ==
  \E insideNav \in BOOLEAN :
    LET m1 == CloseMobileMenu(Menu)
        m2 == HandleOutsideClick(m1, insideNav, FALSE)
    IN /\ SetMenu(m2)
       /\ Dispatched("link", <<isMenuOpen, m1.isMenuOpen, m2.isMenuOpen>>)
       /\ UNCHANGED <<touchStartY, touchEndY>>

\* click anywhere else: only the document's listener
ClickElsewhere ==
  \E insideNav \in BOOLEAN :
    LET m1 == HandleOutsideClick(Menu, insideNav, FALSE)
    IN /\ SetMenu(m1)
       /\ Dispatched("click", <<isMenuOpen, m1.isMenuOpen>>)
       /\ UNCHANGED <<touchStartY, touchEndY>>

\* keydown on the document (line 245)
KeyDown ==
  \E key \in Keys :
    LET m1 == HandleEscapeKey(Menu, key)
    IN /\ SetMenu(m1)
       /\ Dispatched("keydown", <<isMenuOpen, m1.isMenuOpen>>)
       /\ UNCHANGED <<touchStartY, touchEndY>>

\* touchstart listener, lines 498-504
TouchStart ==
  /\ touchBound
  /\ \E y \in TouchYs : touchStartY' = y
  /\ SetMenu(Menu)
  /\ Dispatched("touchstart", <<isMenuOpen, isMenuOpen>>)
  /\ UNCHANGED touchEndY

\* touchend listener, lines 506-513
TouchEnd ==
  /\ touchBound
  /\ \E y \in TouchYs :
       LET m1 == HandleSwipe(Menu, touchStartY, y)
       IN /\ touchEndY' = y
          /\ SetMenu(m1)
          /\ Dispatched("touchend", <<isMenuOpen, m1.isMenuOpen>>)
  /\ UNCHANGED touchStartY

\* the window is resized to width w: the debounced handleResize (line 248)
Resize ==
  \E w \in ViewportWidths :
    LET callNow == CallNow(Immediate, resizeTimer)
        m1 == IF callNow THEN HandleResize(Menu, w) ELSE Menu
    IN /\ w # viewportWidth
       /\ viewportWidth' = w
       /\ resizeTimer' = ResizeWait
       /\ SetMenu(m1)
       /\ resizeOnly' = IF resizeTimer = NoTimer THEN TRUE ELSE resizeOnly
       /\ lastEvent' = "resize"
       /\ menuLog' = <<isMenuOpen, m1.isMenuOpen>>
       /\ UNCHANGED <<touchBound, touchStartY, touchEndY>>
       /\ UNCHANGED notNav

\* time passes, no further than the expiry of the debounce timer
NavElapse ==
  \E d \in {ResizeWait \div 2, ResizeWait} :
    /\ resizeTimer # NoTimer
    /\ d <= resizeTimer
    /\ resizeTimer' = resizeTimer - d
    /\ UNCHANGED <<isMenuOpen, toggleActive, navMenuOpen, bodyOverflow,
                   ariaExpanded, ariaHidden, viewportWidth, touchBound,
                   touchStartY, touchEndY, resizeOnly, lastEvent, menuLog>>
    /\ UNCHANGED notNav

\* later() of the debounced handleResize, lines 51-54
ResizeLater ==
  LET m1 == IF LaterCalls(Immediate)
              THEN HandleResize(Menu, viewportWidth) ELSE Menu
  IN /\ resizeTimer = 0
     /\ resizeTimer' = NoTimer
     /\ SetMenu(m1)
     /\ lastEvent' = "resizeLater"
     /\ menuLog' = <<isMenuOpen, m1.isMenuOpen>>
     /\ UNCHANGED <<viewportWidth, touchBound, touchStartY, touchEndY, resizeOnly>>
     /\ UNCHANGED notNav

NextNav ==
  \/ ClickToggle \/ ClickNavLink \/ ClickElsewhere \/ KeyDown
  \/ TouchStart \/ TouchEnd \/ Resize \/ NavElapse \/ ResizeLater

NavPage == IdleCarousel /\ IdleBanner /\ InitNav /\ IdleScroll /\ IdleRest

SpecNav == NavPage /\ [][NextNav]_vars

\* ------------------------------------------------------ header scroll effect
notScroll == <<carouselVars, bannerVars, navVars, restVars>>

\* ScrollEffects.updateHeader, lines 394-407, with window.scrollY = y
UpdateHeader(y) ==
  /\ headerScrolled' = (y > ScrollThreshold)
  /\ lastScrollY' = IF y <= 0 THEN 0 ELSE y

\* the page scrolls to y: the debounced updateHeader (line 384)
Scroll ==
  \E y \in ScrollYs :
    /\ y # scrollY
    /\ scrollY' = y
    /\ IF CallNow(Immediate, scrollTimer)
         THEN UpdateHeader(y)
         ELSE UNCHANGED <<headerScrolled, lastScrollY>>
    /\ scrollTimer' = ScrollDebounceDelay
    /\ scrollEvent' = "scroll"
    /\ UNCHANGED notScroll

\* time passes, no further than the expiry of the debounce timer
ScrollElapse ==
  \E d \in {ScrollDebounceDelay \div 2, ScrollDebounceDelay} :
    /\ scrollTimer # NoTimer
    /\ d <= scrollTimer
    /\ scrollTimer' = scrollTimer - d
    /\ UNCHANGED <<scrollY, headerScrolled, lastScrollY, scrollEvent>>
    /\ UNCHANGED notScroll

\* later() of the debounced updateHeader, lines 51-54
ScrollLater ==
  /\ scrollTimer = 0
  /\ scrollTimer' = NoTimer
  /\ IF LaterCalls(Immediate)
       THEN UpdateHeader(scrollY)
       ELSE UNCHANGED <<headerScrolled, lastScrollY>>
  /\ scrollEvent' = "scrollLater"
  /\ UNCHANGED scrollY
  /\ UNCHANGED notScroll

NextScroll == Scroll \/ ScrollElapse \/ ScrollLater

ScrollPage == IdleCarousel /\ IdleBanner /\ IdleNav /\ InitScroll /\ IdleRest

SpecScroll == ScrollPage /\ [][NextScroll]_vars

\* ------------------------------------------- Utils.debounce, any arguments
notDebounce == <<carouselVars, bannerVars, navVars, scrollVars, formVars>>
notForm == <<carouselVars, bannerVars, navVars, scrollVars, debounceVars>>

\* clearTimeout(id): the timer with that id, if any is pending, is removed
ClearTimeout_Noop(timers, id) == timers

ClearTimeout(timers, id) == {t \in timers : t.id # id}

\* the id setTimeout returns: positive, of no pending timer, and not the
\* one still held in timeout
FreshId(timers, held) ==
  CHOOSE i \in 1..(Cardinality(timers) + 2) :
    i # held /\ \A t \in timers : t.id # i

\* setTimeout(later, wait), later capturing args
SetTimeout(timers, id, wait, args) ==
  timers \cup {[id |-> id, left |-> wait, args |-> args]}

MinOf(a, b) == IF a < b THEN a ELSE b

\* executedFunction(...args), lines 50-59
DebouncedCall ==
  \E args \in DebounceArgs :
    LET callNow == CallNow(dbImmediate, dbTimeout)
        cleared == ClearTimeout(dbTimers, dbTimeout)
        id == FreshId(cleared, dbTimeout)
        newBurst == dbSince >= dbWait
        calls == IF newBurst THEN <<args>> ELSE Append(burstCalls, args)
        invoked == IF newBurst THEN <<>> ELSE burstInvoked
    IN \* a timer that is due runs before anything else
       /\ \A t \in dbTimers : t.left > 0
       /\ Len(calls) <= MaxBurst
       /\ dbTimers' = SetTimeout(cleared, id, dbWait, args)
       /\ dbTimeout' = id
       /\ dbSince' = 0
       /\ burstCalls' = calls
       /\ burstInvoked' =
            IF callNow
              THEN Append(invoked, [args |-> args, by |-> "call",
                                    nth |-> Len(calls), since |-> 0])
              ELSE invoked
       /\ UNCHANGED <<dbWait, dbImmediate>>
       /\ UNCHANGED notDebounce

\* time passes, no further than the first timer that is due
DebounceElapse ==
  \E d \in {dbWait \div 2, dbWait} :
    /\ dbTimers # {} \/ dbSince < dbWait
    /\ \A t \in dbTimers : d <= t.left
    /\ dbTimers' = {[t EXCEPT !.left = t.left - d] : t \in dbTimers}
    /\ dbSince' = MinOf(dbWait, dbSince + d)
    /\ UNCHANGED <<dbWait, dbImmediate, dbTimeout, burstCalls, burstInvoked>>
    /\ UNCHANGED notDebounce

\* later(), lines 51-54, of the timer t
DebounceLater ==
  \E t \in dbTimers :
    /\ t.left = 0
    /\ dbTimers' = dbTimers \ {t}
    /\ dbTimeout' = NoTimer
    /\ burstInvoked' =
         IF LaterCalls(dbImmediate)
           THEN Append(burstInvoked, [args |-> t.args, by |-> "later",
                                      nth |-> Len(burstCalls), since |-> dbSince])
           ELSE burstInvoked
    /\ UNCHANGED <<dbWait, dbImmediate, dbSince, burstCalls>>
    /\ UNCHANGED notDebounce

NextDebounce == DebouncedCall \/ DebounceElapse \/ DebounceLater

DebouncePage ==
  IdleCarousel /\ IdleBanner /\ IdleNav /\ IdleScroll /\ InitDebounce /\ IdleForm

SpecDebounce == DebouncePage /\ [][NextDebounce]_vars

\* ------------------------------------------------------ derived notions
TickStep == ticks' = ticks + 1
RewindStep == Len(timeouts') < Len(timeouts)

Blank == [slide |-> -1, width |-> 0]

\* what an element looks like: a clone is pixel-identical to its original
Visual(e) == [slide |-> e.slide, width |-> e.width]

\* what the viewport shows when the track is translated by off
ShownAt(off) ==
  LET i == (-off) \div slideWidth
  IN IF i >= 0 /\ i < Len(slideItems)
       THEN Visual(Item(slideItems, i))
       ELSE Blank

\* ---------------------------------------------------------------- claims

\* C1: the tick that moves the cursor onto the trailing clone (index N+1)
\* schedules a rewind due 500 ms later, and a rewind sets the transition to
\* none, the cursor to 1 and the offset to -W.
C1_WrapSchedulesRewind ==
  [][ /\ (TickStep /\ currentIndex' = N + 1) =>
           /\ Len(timeouts') = Len(timeouts) + 1
           /\ timeouts'[Len(timeouts')] = RewindDelay
      /\ RewindStep =>
           /\ transition' = None
           /\ currentIndex' = 1
           /\ transform' = -slideWidth ]_vars

\* C2: at the configured cadence the cursor is always an index of the
\* extended track, 1 <= currentIndex <= N+1, the track having N+2 elements.
C2_CursorInTrack ==
  built => /\ Len(slideItems) = N + 2
           /\ currentIndex >= 1
           /\ currentIndex <= N + 1

\* C3: a rewind swaps the clone of slide 0 for the real slide 0: what is
\* shown at the offset before the rewind and after it is identical.
C3_NoVisibleJump ==
  [][ (RewindStep /\ transition' = None) =>
        /\ ShownAt(transform) = Visual(Item(slideItems, N + 1))
        /\ ShownAt(transform') = Visual(Item(slideItems, 1))
        /\ ShownAt(transform) = ShownAt(transform') ]_vars

\* C4: the slide rendered after the k-th tick, once its rewind (if any) has
\* fired, is slide k mod N: period N ticks, every real slide once, in order.
C4_Periodic ==
  (built /\ timeouts = <<>>) => ShownAt(transform).slide = ticks % N

C6_OffsetFollowsCursor ==
  built => /\ slideWidth = Item(slideItems, 1).width
           /\ transform = -slideWidth * currentIndex

\* a rewind that fired after further ticks had run
C6_Witness ==
  /\ built
  /\ ticks % (N + 1) # 0
  /\ transition = None
  /\ currentIndex = 1
  /\ transform = -slideWidth

\* C7: after build the track is [clone of slide N-1, slide 0, ..., slide N-1,
\* clone of slide 0], of length N+2; the cursor is 1, the offset -W and no
\* animated transition was set.
C7_Build ==
  (built /\ ticks = 0) =>
    /\ Len(slideItems) = N + 2
    /\ slideItems[1] = CloneNode(Slide(N - 1, slideWidth))
    /\ \A i \in 1..N : slideItems[i + 1] = Slide(i - 1, slideWidth)
    /\ slideItems[N + 2] = CloneNode(Slide(0, slideWidth))
    /\ currentIndex = 1
    /\ transform = -slideWidth
    /\ transition # Animated
    /\ timeouts = <<>>

C7_Witness ==
  /\ built /\ ticks = 0
  /\ N >= 2
  /\ Len(slideItems) = N + 2
  /\ slideWidth \in Widths

\* C8: with one slide the track has 3 elements and every tick starts at
\* cursor 1, moves onto the clone (index 2) and schedules a rewind.
C8_SingleSlideWraps ==
  [][ (N = 1 /\ TickStep) =>
        /\ Len(slideItems) = 3
        /\ currentIndex = 1
        /\ currentIndex' = 2
        /\ Len(timeouts') = Len(timeouts) + 1 ]_vars

\* C9: a callback changes the offset only after it has set the transition:
\* to animated in a tick, to none in a rewind; and once a rewind has set
\* none, only a tick changes the transition again.
C9_TransitionBeforeMove ==
  [][ /\ TickStep =>
           \A i \in 2..Len(styleLog') :
             styleLog'[i].transform # styleLog'[i - 1].transform =>
               styleLog'[i - 1].transition = Animated
      /\ RewindStep =>
           \A i \in 2..Len(styleLog') :
             styleLog'[i].transform # styleLog'[i - 1].transform =>
               styleLog'[i - 1].transition = None
      /\ (transition = None /\ transition' # None) =>
           (TickStep /\ transition' = Animated) ]_vars

\* a rewind has moved the track, the transition is none
C9_Witness ==
  /\ built
  /\ transition = None
  /\ Len(styleLog) = 3
  /\ styleLog[3].transform # styleLog[2].transform
  /\ styleLog[2].transition = None

\* C10: a tick whose incremented cursor is in 1..N leaves the pending
\* one-shot timers as they were.
C10_NoRewindInsideTrack ==
  [][ (TickStep /\ currentIndex' \in 1..N) => timeouts' = timeouts ]_vars

C10_Witness ==
  /\ built
  /\ ticks > 0
  /\ transition = Animated
  /\ currentIndex \in 1..N
  /\ timeouts = <<>>

\* C11: a tick that reaches the wrap test schedules exactly one one-shot
\* timer, any other tick none, and under any interleaving of ticks and
\* rewinds at most one rewind timer is pending.
C11_OneRewindPending ==
  [][ /\ Len(timeouts') <= 1
      /\ TickStep =>
           IF currentIndex' = Len(slideItems)
             THEN timeouts' = Append(timeouts, RewindDelay)
             ELSE timeouts' = timeouts ]_vars

\* a second wraparound: again exactly one timer
C11_Witness ==
  /\ built
  /\ ticks > N + 2
  /\ currentIndex = N + 2
  /\ Len(timeouts) = 1

\* C14: under any interleaving, whenever the cursor is past the trailing
\* clone a rewind is pending; ticks that run while it is pending schedule
\* nothing more, and the rewind sets the cursor to 1 however far it ran.
C14_RewindPendingPastTrack ==
  [][ /\ currentIndex' > N + 1 => timeouts' # <<>>
      /\ (TickStep /\ timeouts # <<>>) => timeouts' = timeouts
      /\ RewindStep => (currentIndex' = 1 /\ timeouts' = <<>>) ]_vars

\* ticks have run while the rewind was pending
C14_Witness ==
  /\ built
  /\ timeouts # <<>>
  /\ currentIndex > N + 2

\* C16: at the configured delays (500 ms against 3000 ms) no tick runs while
\* a rewind is pending.
C16_RewindBeforeNextTick ==
  [][ TickStep => timeouts = <<>> ]_vars

\* a rewind has fired and the next tick is still 2500 ms away
C16_Witness ==
  /\ built
  /\ ticks > 0
  /\ transition = None
  /\ timeouts = <<>>
  /\ interval = TickInterval - RewindDelay

\* C15: if the recurring timer and every scheduled rewind eventually fire,
\* the cursor is 1 infinitely often, every real position 1..N is visited
\* infinitely often, and a cursor past the track always comes back to 1.
C15_LoopLives ==
  /\ []<>(built /\ currentIndex = 1)
  /\ \A p \in 1..MaxN : []<>(p > N \/ (built /\ currentIndex = p))
  /\ (built /\ currentIndex > N + 1) ~> (currentIndex = 1)

\* a rewind brought the cursor back from beyond index N+2
C15_Witness ==
  /\ built
  /\ currentIndex = 1
  /\ transition = None
  /\ Len(styleLog) = 3
  /\ styleLog[1].transform < -slideWidth * (N + 2)

\* C12: after the first changeBackground and after every nextBanner, exactly
\* one banner has display block, the one at indexBanner; all others have none.
C12_OneBannerShown ==
  bannerStarted =>
    /\ indexBanner \in 0..(B - 1)
    /\ Cardinality({i \in DOMAIN bannerList : bannerList[i] = Block}) = 1
    /\ \A i \in DOMAIN bannerList :
         bannerList[i] = IF i = indexBanner + 1 THEN Block ELSE None

\* the rotator has wrapped and shows a later banner again
C12_Witness ==
  /\ bannerStarted
  /\ B >= 2
  /\ bannerTicks > B
  /\ bannerList[2] = Block
  /\ bannerList[1] = None

\* C13: indexBanner is 0 at the start and k mod B after the k-th nextBanner.
C13_BannerIndex ==
  /\ indexBanner \in 0..(B - 1)
  /\ ~bannerStarted => indexBanner = 0
  /\ bannerStarted => indexBanner = bannerTicks % B

\* the index is back at 0 right after B-1
C13_Witness ==
  /\ bannerStarted
  /\ B >= 2
  /\ bannerTicks = 2 * B
  /\ indexBanner = 0

\* C17: isMenuOpen is true exactly when the toggle has class active, the nav
\* has class mobile-menu-open and body overflow is hidden; openMobileMenu
\* and closeMobileMenu are idempotent.
C17_MenuConsistent ==
  /\ isMenuOpen <=> toggleActive
  /\ isMenuOpen <=> navMenuOpen
  /\ isMenuOpen <=> (bodyOverflow = Hidden)
  /\ OpenMobileMenu(OpenMobileMenu(Menu)) = OpenMobileMenu(Menu)
  /\ CloseMobileMenu(CloseMobileMenu(Menu)) = CloseMobileMenu(Menu)
  /\ isMenuOpen => OpenMobileMenu(Menu) = Menu
  /\ ~isMenuOpen => CloseMobileMenu(Menu) = Menu

\* an open menu was closed by a swipe up
C17_Witness ==
  /\ lastEvent = "touchend"
  /\ menuLog = <<TRUE, FALSE>>
  /\ ~toggleActive
  /\ ~navMenuOpen
  /\ bodyOverflow = Unset

\* C18: one click on the toggle flips isMenuOpen exactly once: the toggle's
\* listener flips it and the document's listener, run for the same click,
\* leaves it as it is.
C18_ToggleFlipsOnce ==
  lastEvent = "toggle" =>
    /\ Len(menuLog) = 3
    /\ menuLog[2] = ~menuLog[1]
    /\ menuLog[3] = menuLog[2]
    /\ isMenuOpen = menuLog[3]

\* the click that opens the menu
C18_Witness ==
  /\ lastEvent = "toggle"
  /\ menuLog = <<FALSE, TRUE, TRUE>>
  /\ isMenuOpen

\* C19: when a burst of resize events has ended and the debounce timer has
\* expired with the viewport wider than 768, the menu is closed.
C19_ClosedAtDesktopWidth ==
  (lastEvent = "resizeLater" /\ resizeOnly /\ resizeTimer = NoTimer
     /\ viewportWidth > TabletBreakpoint) => ~isMenuOpen

\* C20: when a burst of scroll events has ended and the debounce timer has
\* expired, the header has class scrolled exactly when scrollY > 50.
C20_HeaderFollowsScroll ==
  (scrollEvent = "scrollLater" /\ scrollTimer = NoTimer) =>
    (headerScrolled <=> scrollY > ScrollThreshold)

\* C21: of a burst of calls less than wait ms apart func is invoked exactly
\* once: with immediate, at the first call with its arguments and never
\* after; without, wait ms after the last call with the last call's
\* arguments; and at most one timer of the function is pending.
C21_DebounceOncePerBurst ==
  LET n == Len(burstCalls)
      settled == n > 0 /\ dbTimers = {} /\ dbSince >= dbWait
  IN /\ Cardinality(dbTimers) <= 1
     /\ Len(burstInvoked) <= 1
     /\ settled => Len(burstInvoked) = 1
     /\ (dbImmediate /\ n > 0) =>
          burstInvoked = <<[args |-> burstCalls[1], by |-> "call",
                            nth |-> 1, since |-> 0]>>
     /\ (~dbImmediate /\ ~settled) => burstInvoked = <<>>
     /\ (~dbImmediate /\ settled) =>
          burstInvoked = <<[args |-> burstCalls[n], by |-> "later",
                            nth |-> n, since |-> dbWait]>>

\* a burst of three calls without immediate has ended: func ran once, with
\* the arguments of the third call and not those of the first
C21_Witness ==
  /\ ~dbImmediate
  /\ Len(burstCalls) = 3
  /\ burstCalls[1] # burstCalls[3]
  /\ dbTimers = {}
  /\ Len(burstInvoked) = 1
  /\ burstInvoked[1].args = burstCalls[3]

\* ---------------------------------------------------------------------
\* Contact form (FormHandler)
\* ---------------------------------------------------------------------

Whitespace == {" "}
\* ms by which the form's clock advances: a third of the submission time
FormStep == LoadingTimeout \div 3

\* String.prototype.trim on a sequence of characters
Trim(str) ==
  LET inked == {i \in 1..Len(str) : str[i] \notin Whitespace}
  IN IF inked = {} THEN <<>>
     ELSE SubSeq(str, CHOOSE i \in inked : \A j \in inked : i <= j,
                      CHOOSE i \in inked : \A j \in inked : j <= i)

\* [^\s@]+ matches str[from..to]
PlainRun(str, from, to) ==
  /\ from <= to
  /\ \A i \in from..to : str[i] \notin Whitespace \cup {"@"}

\* Utils.isValidEmail: /^[^\s@]+@[^\s@]+\.[^\s@]+$/.test(email)
IsValidEmail(email) ==
  \E at \in 1..Len(email), dot \in 1..Len(email) :
    /\ email[at] = "@"
    /\ email[dot] = "."
    /\ PlainRun(email, 1, at - 1)
    /\ PlainRun(email, at + 1, dot - 1)
    /\ PlainRun(email, dot + 1, Len(email))

\* getFormData: the trimmed value of each field under its type
GetFormData == [f \in Fields |-> Trim(fieldValue[f])]

NameRequired == "Name is required"
EmailRequired == "Email is required"
EmailInvalid == "Please enter a valid email address"
MessageRequired == "Message is required"

\* validateForm: the error pushed for a field, <<>> when it passes
FieldErrors_NoFormatCheck(formData, f) ==
  IF formData[f] # <<>> THEN <<>>
  ELSE <<CASE f = "text" -> NameRequired
           [] f = "email" -> EmailRequired
           [] OTHER -> MessageRequired>>

FieldErrors(formData, f) ==
  CASE f = "text" ->
         IF formData.text = <<>> THEN <<NameRequired>> ELSE <<>>
    [] f = "email" ->
         IF formData.email = <<>> THEN <<EmailRequired>>
         ELSE IF ~IsValidEmail(formData.email) THEN <<EmailInvalid>>
         ELSE <<>>
    [] OTHER ->
         IF formData.textarea = <<>> THEN <<MessageRequired>> ELSE <<>>

\* validateForm: errors, in the order name, email, message
ValidationErrors(formData) ==
  FieldErrors(formData, "text") \o FieldErrors(formData, "email")
    \o FieldErrors(formData, "textarea")

\* validateForm: every field is cleared, then the failing ones are marked
MarkFields(formData) ==
  [f \in Fields |-> IF FieldErrors(formData, f) # <<>> THEN Errored ELSE Clean]

\* showMessage: the first existing .form-message is removed, the new one is
\* inserted first; a success message carries its 5000 ms removal timer
ShowMessage_KeepExisting(messages, text, type) ==
  <<[type |-> type, text |-> text,
     left |-> IF type = "success" THEN SuccessTimeout ELSE NoTimer]>>
    \o messages

ShowMessage(messages, text, type) ==
  <<[type |-> type, text |-> text,
     left |-> IF type = "success" THEN SuccessTimeout ELSE NoTimer]>>
    \o (IF messages = <<>> THEN <<>> ELSE Tail(messages))

\* setLoadingState(isLoading)
SetLoadingState_NeverCleared(isLoading) ==
  [opacity |-> "0.7", pointerEvents |-> None,
   textContent |-> "Sending...", ariaBusy |-> "true"]

SetLoadingState(isLoading) ==
  [opacity |-> IF isLoading THEN "0.7" ELSE "1",
   pointerEvents |-> IF isLoading THEN None ELSE "auto",
   textContent |-> IF isLoading THEN "Sending..." ELSE "Get In Touch",
   ariaBusy |-> IF isLoading THEN "true" ELSE "false"]

SuccessText == <<"Thank you for your message! I will get back to you soon.">>
FailureText == <<"There was an error sending your message. Please try again.">>

\* the sequence without its i-th element
Without(seq, i) == SubSeq(seq, 1, i - 1) \o SubSeq(seq, i + 1, Len(seq))

\* handleSubmit up to its await: a click on the button, which style
\* pointer-events: none keeps from the pointer but not from the keyboard
HandleSubmit ==
  LET formData == GetFormData
      errors == ValidationErrors(formData)
  IN /\ fieldState' = MarkFields(formData)
     /\ IF errors # <<>>
        THEN /\ formMessage' = ShowMessage(formMessage, errors, "error")
             /\ UNCHANGED <<submitBtn, pending>>
        ELSE /\ Len(pending) < MaxInFlight
             /\ submitBtn' = SetLoadingState(TRUE)
             /\ pending' = Append(pending, LoadingTimeout)
             /\ UNCHANGED formMessage
     /\ UNCHANGED <<fieldValue, requiredAttr, hasReset, notForm>>

\* resetForm: form.reset() restores the authored values and keeps the
\* marks; without it each value is emptied and each mark cleared
ResetValues == EmptyForm
ResetStates(states) ==
  IF hasReset THEN states ELSE [f \in Fields |-> Clean]

\* handleSubmit after its await, submitForm's timer having resolved the i-th
\* promise awaited
SubmitResolved(i) ==
  /\ i \in 1..Len(pending)
  /\ pending[i] = 0
  /\ formMessage' = ShowMessage(formMessage, SuccessText, "success")
  /\ fieldValue' = ResetValues
  /\ fieldState' = ResetStates(fieldState)
  /\ submitBtn' = SetLoadingState(FALSE)
  /\ pending' = Without(pending, i)
  /\ UNCHANGED <<requiredAttr, hasReset, notForm>>

\* handleSubmit after its await, were the i-th promise awaited to reject:
\* the catch block, then the finally block. The promise of submitForm is
\* only ever resolved, by its timer, so no behaviour of the page takes
\* this step.
SubmitRejected(i) ==
  /\ i \in 1..Len(pending)
  /\ formMessage' = ShowMessage(formMessage, FailureText, "error")
  /\ submitBtn' = SetLoadingState(FALSE)
  /\ pending' = Without(pending, i)
  /\ UNCHANGED <<fieldValue, fieldState, requiredAttr, hasReset, notForm>>

\* validateField, on blur of the field f
ValidateField(f) ==
  LET value == Trim(fieldValue[f])
      isValid == ~ \/ requiredAttr /\ value = <<>>
                   \/ f = "email" /\ value # <<>> /\ ~IsValidEmail(value)
  IN /\ fieldState' = [fieldState EXCEPT ![f] = IF isValid THEN Clean ELSE Errored]
     /\ UNCHANGED <<fieldValue, requiredAttr, hasReset, formMessage,
                    submitBtn, pending, notForm>>

\* the input listener, the user having changed the field f to v:
\* clearFieldError
InputField(f, v) ==
  /\ v # fieldValue[f]
  /\ fieldValue' = [fieldValue EXCEPT ![f] = v]
  /\ fieldState' = [fieldState EXCEPT ![f] = Clean]
  /\ UNCHANGED <<requiredAttr, hasReset, formMessage, submitBtn, pending,
                 notForm>>

\* the removal timer of the success message shown fires
MessageExpired ==
  /\ formMessage # <<>>
  /\ formMessage[1].left = 0
  /\ formMessage' = Tail(formMessage)
  /\ UNCHANGED <<fieldValue, fieldState, requiredAttr, hasReset, submitBtn,
                 pending, notForm>>

\* FormStep ms pass, no timer of the form being overdue
FormElapse ==
  /\ \A i \in 1..Len(pending) : pending[i] >= FormStep
  /\ \A i \in 1..Len(formMessage) :
       formMessage[i].left = NoTimer \/ formMessage[i].left >= FormStep
  /\ pending # <<>> \/ \E i \in 1..Len(formMessage) : formMessage[i].left # NoTimer
  /\ pending' = [i \in 1..Len(pending) |-> pending[i] - FormStep]
  /\ formMessage' = [i \in 1..Len(formMessage) |->
       IF formMessage[i].left = NoTimer THEN formMessage[i]
       ELSE [formMessage[i] EXCEPT !.left = @ - FormStep]]
  /\ UNCHANGED <<fieldValue, fieldState, requiredAttr, hasReset, submitBtn,
                 notForm>>

NextForm ==
  \/ HandleSubmit
  \/ \E i \in 1..MaxInFlight : SubmitResolved(i)
  \/ \E f \in Fields : ValidateField(f)
  \/ \E v \in NameValues : InputField("text", v)
  \/ \E v \in EmailValues : InputField("email", v)
  \/ \E v \in MessageValues : InputField("textarea", v)
  \/ MessageExpired
  \/ FormElapse

FormPage ==
  IdleCarousel /\ IdleBanner /\ IdleNav /\ IdleScroll /\ IdleDebounce /\ InitForm

SpecForm == FormPage /\ [][NextForm]_vars

\* C22: handleSubmit on invalid data (name empty, email empty or not
\* matching emailRegex, or message empty, each after trimming) leaves the
\* button out of the loading state it was not put in, starts no submitForm,
\* resets no field, marks with aria-invalid exactly the offending fields,
\* and leaves the form showing one message, an error.
C22_InvalidSubmitStopsAtValidation ==
  [][LET name == Trim(fieldValue.text)
         email == Trim(fieldValue.email)
         message == Trim(fieldValue.textarea)
         offending == {f \in Fields :
                         \/ f = "text" /\ name = <<>>
                         \/ f = "email" /\ (email = <<>> \/ ~IsValidEmail(email))
                         \/ f = "textarea" /\ message = <<>>}
     IN (HandleSubmit /\ offending # {}) =>
          /\ submitBtn' = submitBtn
          /\ pending' = pending
          /\ fieldValue' = fieldValue
          /\ \A f \in Fields :
               fieldState'[f].ariaInvalid = "true" <=> f \in offending
          /\ Len(formMessage') = 1
          /\ formMessage'[1].type = "error"
          /\ Len(formMessage'[1].text) = Cardinality(offending)]_vars

\* a form whose only fault is an email of the wrong format was submitted:
\* that field alone is marked, its error is shown, nothing is being sent
C22_Witness ==
  /\ formMessage = <<[type |-> "error", text |-> <<EmailInvalid>>,
                      left |-> NoTimer]>>
  /\ fieldState = [text |-> Clean, email |-> Errored, textarea |-> Clean]
  /\ Trim(fieldValue.email) # <<>>
  /\ ~IsValidEmail(Trim(fieldValue.email))
  /\ submitBtn = AuthoredBtn
  /\ pending = <<>>

\* C23: handleSubmit on valid data puts the button in the loading state as
\* it starts submitForm, the button stays in that state while a submitForm
\* is awaited, and is taken out of it when submitForm settles, resolved or
\* rejected; resolved, the success message is shown and the form reset;
\* rejected, the error message is shown and the form kept.
C23_LoadingUntilSettled ==
  [][LET formData == [f \in Fields |-> Trim(fieldValue[f])]
         valid == /\ \A f \in Fields : formData[f] # <<>>
                  /\ IsValidEmail(formData.email)
     IN /\ (HandleSubmit /\ valid) =>
             /\ submitBtn' = SetLoadingState(TRUE)
             /\ pending' = Append(pending, LoadingTimeout)
        /\ pending' # <<>> => submitBtn' = SetLoadingState(TRUE)
        /\ (\E i \in 1..Len(pending) : SubmitResolved(i)) =>
             /\ submitBtn' = SetLoadingState(FALSE)
             /\ formMessage'[1].type = "success"
             /\ fieldValue' = EmptyForm
        /\ (\E i \in 1..Len(pending) : SubmitRejected(i)) =>
             /\ submitBtn' = SetLoadingState(FALSE)
             /\ formMessage'[1].type = "error"
             /\ formMessage'[1].text = FailureText
             /\ fieldValue' = fieldValue]_vars

====
